---- MODULE Spec2Model ----
(***************************************************************************)
(* Model of src/src/typeinfo.rs (pdbview): the converters that turn raw    *)
(* pdb records into the serializable ParsedPdb model.                      *)
(*                                                                         *)
(* One extraction pass is modelled.  The shared context (address map, base *)
(* address, type finder, id finder, string table) and the build profile    *)
(* (pointer width, overflow checks) are fixed by Init; every action is one *)
(* call of one converter on one raw record.  A Rust panic ends the process *)
(* (outcome = "Panic"), after which no converter runs.                     *)
(*                                                                         *)
(* Option<T> is modelled as a sequence: None == << >>, Some(x) == <<x>>.   *)
(***************************************************************************)
EXTENDS Integers, Sequences, FiniteSets, TLC

VARIABLES
    usize_bits,       \* width of usize on the build target
    overflow_checks,  \* build profile: TRUE = debug (overflow panics), FALSE = release (wraps)
    base_address,     \* caller-supplied base address (usize)
    address_map,      \* pdb::AddressMap: (section, offset) -> Option<Rva>
    type_finder,      \* pdb::ItemFinder<TypeIndex>: type index -> lookup outcome
    id_finder,        \* Option<&pdb::IdFinder>: None or a table id index -> lookup outcome
    string_table,     \* pdb::StringTable: string ref -> Option<text>
    op,               \* converter invoked last ("none" before the first call)
    input,            \* raw record handed to that converter
    outcome,          \* "none" | "Ok" | "Err" | "Panic": how the call ended
    result,           \* value returned (Ok), error returned (Err) or panic message (Panic)
    warned,           \* records named by the warn! calls of the last conversion, in order
    lookups           \* context tables consulted by the last conversion, in order

ctx == <<usize_bits, overflow_checks, base_address, address_map, type_finder,
         id_finder, string_table>>
call == <<op, input, outcome, result, warned, lookups>>
vars == <<usize_bits, overflow_checks, base_address, address_map, type_finder,
          id_finder, string_table, op, input, outcome, result, warned, lookups>>

---------------------------------------------------------------------------
(* Bounds of the model *)

\* u32 (pdb::Rva, section offsets, lengths) is scaled down to U32Bits bits.
U32Bits == 2
\* section indexes run over 0..MaxSection (0 is the invalid section)
MaxSection == 1
\* type indexes run over 0..MaxTypeIndex
MaxTypeIndex == 0
\* id indexes run over 0..MaxIdIndex
MaxIdIndex == 1
\* a build-info id record carries at most MaxArgs argument ids
MaxArgs == 2
\* a line program lists at most MaxFiles file entries
MaxFiles == 2
\* checksum payloads are at most MaxDigestLen bytes, each byte in 0..MaxByte
MaxDigestLen == 3
MaxByte == 2

---------------------------------------------------------------------------
(* Helpers *)

None == << >>
Some(x) == <<x>>
IsSome(o) == Len(o) = 1
Unwrap(o) == o[1]

Pow2(n) == 2 ^ n
U32Max == Pow2(U32Bits) - 1
UsizeMax(bits) == Pow2(bits) - 1

\* Seq(S) restricted to length <= n
RECURSIVE SeqsUpTo(_, _)
SeqsUpTo(S, n) ==
    IF n = 0 THEN {<< >>}
    ELSE LET shorter == SeqsUpTo(S, n - 1)
         IN  shorter \cup {Append(s, x) : s \in {t \in shorter : Len(t) = n - 1}, x \in S}

---------------------------------------------------------------------------
(* Raw records and context tables handed over by the pdb reader *)

\* pdb::RawString: a sequence of code units; "xFF" stands for a byte that is
\* not valid UTF-8.
RawNames == {<<"f">>, <<"g", "xFF">>}

\* RawString::to_string (lossy): invalid bytes become U+FFFD; the second
\* to_string turns the Cow<str> into an owned String unchanged.
RECURSIVE to_string(_)
to_string(raw) ==
    IF raw = << >> THEN << >>
    ELSE <<IF Head(raw) = "xFF" THEN "uFFFD" ELSE Head(raw)>> \o to_string(Tail(raw))

Sections == 0 .. MaxSection
SecOffsets == {0, U32Max}
\* pdb::PdbInternalSectionOffset
SectionOffsets == [section : Sections, offset : SecOffsets]

\* pdb::AddressMap seen through to_rva: a partial map from section offsets to
\* RVAs.  The maps tried report one answer for the keys of section 0 and one
\* for the keys of every other section, each answer "no mapping" or an RVA.
RvaOptions == {None, Some(1), Some(U32Max)}
AddressMaps ==
    {[k \in SectionOffsets |-> IF k.section = 0 THEN a ELSE b] :
        a \in RvaOptions, b \in RvaOptions}

\* offset.to_rva(address_map): whatever the map reports for the key.  The
\* converters hand every key to the map, those of section 0 included.
to_rva(offset, map) == map[offset]

\* base addresses tried on a target whose usize has the given width
BaseSamples(bits) == {0, 1, UsizeMax(bits)}

\* pdb::ItemFinder<TypeIndex>::find followed by Item::parse:
\*   "NotFound"    find returns Err
\*   "Unparseable" find returns Ok(item), item.parse() returns Err
\*   "Parsed"      find returns Ok(item), item.parse() returns Ok(type data)
TypeIndexes == 0 .. MaxTypeIndex
TypeOutcomes == {"NotFound", "Unparseable", "Parsed"}
TypeFinders == [TypeIndexes -> TypeOutcomes]

\* pdb::PublicSymbol (two flag samples, every key, every name)
PublicFlagSamples ==
    {[code |-> TRUE, function |-> FALSE, managed |-> FALSE, msil |-> TRUE],
     [code |-> FALSE, function |-> TRUE, managed |-> TRUE, msil |-> FALSE]}
PublicSymbols ==
    {[code |-> f.code, function |-> f.function, managed |-> f.managed,
      msil |-> f.msil, offset |-> k, name |-> n] :
        f \in PublicFlagSamples, k \in SectionOffsets, n \in RawNames}

\* pdb::ProcedureSymbol; parent, end, next and flags are destructured and
\* never read by the conversion (lines 371-373, 379) and are left out.
ProcedureSamples ==
    {[global |-> TRUE, dpc |-> FALSE, len |-> U32Max, dbg_start_offset |-> 0,
      dbg_end_offset |-> 1, name |-> <<"f">>],
     [global |-> FALSE, dpc |-> TRUE, len |-> 0, dbg_start_offset |-> 1,
      dbg_end_offset |-> U32Max, name |-> <<"g", "xFF">>]}
ProcedureSymbols ==
    {[global |-> s.global, dpc |-> s.dpc, len |-> s.len,
      dbg_start_offset |-> s.dbg_start_offset, dbg_end_offset |-> s.dbg_end_offset,
      type_index |-> t, offset |-> k, name |-> s.name] :
        s \in ProcedureSamples, t \in TypeIndexes, k \in SectionOffsets}

---------------------------------------------------------------------------
(* Address resolution, lines 294-303 and 383-392 *)

\* `x as usize` for a u32 x
AsUsize(x, bits) == x % Pow2(bits)

\* usize `+`: the exact sum when it fits; otherwise a panic when the build
\* checks overflow and the wrapped sum when it does not.
UsizeAdd(a, b, bits, checks) ==
    IF a + b <= UsizeMax(bits)
    THEN [panic |-> FALSE, value |-> a + b]
    ELSE IF checks
         THEN [panic |-> TRUE, value |-> 0]
         ELSE [panic |-> FALSE, value |-> (a + b) % Pow2(bits)]

\* the warn! guard
WarnsAbout(sym) == IF sym.offset.section = 0 THEN <<sym>> ELSE << >>

\* offset.to_rva(address_map).map(|rva| u32::from(rva) as usize + base_address)
\* [panic, value]: value is the Option<usize>
ResolveOffset(offset, base, map, bits, checks) ==
    LET rva == to_rva(offset, map)
    IN  IF ~IsSome(rva) THEN [panic |-> FALSE, value |-> None]
        ELSE LET sum == UsizeAdd(AsUsize(Unwrap(rva), bits), base, bits, checks)
             IN  [panic |-> sum.panic, value |-> Some(sum.value)]

OverflowMsg == "attempt to add with overflow"

\* impl From<(pdb::PublicSymbol, usize, &pdb::AddressMap)> for PublicSymbol
PublicSymbol_from(sym, base, map, bits, checks) ==
    LET off == ResolveOffset(sym.offset, base, map, bits, checks)
    IN  [outcome |-> IF off.panic THEN "Panic" ELSE "Ok",
         result  |-> IF off.panic THEN [msg |-> OverflowMsg]
                     ELSE [name |-> to_string(sym.name),
                           is_code |-> sym.code,
                           is_function |-> sym.function,
                           is_managed |-> sym.managed,
                           is_msil |-> sym.msil,
                           offset |-> off.value],
         warned  |-> WarnsAbout(sym),
         lookups |-> <<"AddressMap">>]

\* format!("{:?}", type_data): the Debug rendering of the record found at the index
DebugFormat(type_index) == [debug_of_type |-> type_index]

\* type_finder.find(type_index).ok().map(|t| format!("{:?}", t.parse().expect(..)))
\* [panic, value]: value is the Option<String>
ResolveSignature(type_index, finder) ==
    CASE finder[type_index] = "NotFound"    -> [panic |-> FALSE, value |-> None]
      [] finder[type_index] = "Unparseable" -> [panic |-> TRUE, value |-> None]
      [] finder[type_index] = "Parsed"      ->
             [panic |-> FALSE, value |-> Some(DebugFormat(type_index))]

TypeInfoMsg == "failed to parse type info"

\* impl From<(pdb::ProcedureSymbol, usize, &pdb::AddressMap, &pdb::ItemFinder)> for Procedure
Procedure_from(sym, base, map, finder, bits, checks) ==
    LET off == ResolveOffset(sym.offset, base, map, bits, checks)
        sig == ResolveSignature(sym.type_index, finder)
    IN  IF off.panic
        THEN [outcome |-> "Panic", result |-> [msg |-> OverflowMsg],
              warned |-> WarnsAbout(sym), lookups |-> <<"AddressMap">>]
        ELSE IF sig.panic
        THEN [outcome |-> "Panic", result |-> [msg |-> TypeInfoMsg],
              warned |-> WarnsAbout(sym), lookups |-> <<"AddressMap", "TypeFinder">>]
        ELSE [outcome |-> "Ok",
              result  |-> [name |-> to_string(sym.name),
                           signature |-> sig.value,
                           offset |-> off.value,
                           len |-> AsUsize(sym.len, bits),
                           is_global |-> sym.global,
                           is_dpc |-> sym.dpc,
                           prologue_end |-> AsUsize(sym.dbg_start_offset, bits),
                           epilogue_start |-> AsUsize(sym.dbg_end_offset, bits)],
              warned  |-> WarnsAbout(sym),
              lookups |-> <<"AddressMap", "TypeFinder">>]

---------------------------------------------------------------------------
(* Build info, lines 47-70 *)

\* pdb::IdFinder::find followed by Item::parse, per id index:
\*   "NotFound"    find returns Err
\*   "Unparseable" find returns Ok(item), item.parse() returns Err
\*   "BuildInfo"   item.parse() returns Ok(IdData::BuildInfo) with `arguments`
\*   "Other"       item.parse() returns Ok of another IdData variant
IdIndexes == 0 .. MaxIdIndex
IdKinds == {"NotFound", "Unparseable", "BuildInfo", "Other"}
\* the id tables tried: any kind at any index, the build-info records of one
\* table sharing their argument list
IdTables ==
    {[i \in IdIndexes |->
        [kind |-> kinds[i],
         arguments |-> IF kinds[i] = "BuildInfo" THEN args ELSE << >>]] :
        kinds \in [IdIndexes -> IdKinds], args \in SeqsUpTo(IdIndexes, MaxArgs)}
IdFinders == {None} \cup {Some(t) : t \in IdTables}

\* pdb::BuildInfoSymbol
BuildInfoSymbols == [id : IdIndexes]

\* the ids of `arguments` up to and including the first one find() rejects
RECURSIVE ArgsTried(_, _)
ArgsTried(arguments, table) ==
    IF arguments = << >> THEN << >>
    ELSE IF table[Head(arguments)].kind = "NotFound" THEN <<Head(arguments)>>
    ELSE <<Head(arguments)>> \o ArgsTried(Tail(arguments), table)

AllFound(arguments, table) ==
    \A i \in 1 .. Len(arguments) : table[arguments[i]].kind # "NotFound"

FinderLookups(n) == [i \in 1 .. n |-> "IdFinder"]

\* Faulty variant: the is_none() check of lines 52-54 is missing, so the unwrap of
\* line 56 meets None.
BuildInfo_try_from_unchecked(symbol, finder) ==
    [outcome |-> "Panic",
     result |-> [msg |-> "called Option::unwrap() on a None value"],
     warned |-> << >>, lookups |-> << >>]

\* impl TryFrom<(&pdb::BuildInfoSymbol, Option<&pdb::IdFinder>)> for BuildInfo
BuildInfo_try_from(symbol, finder) ==
    IF ~IsSome(finder)
    THEN [outcome |-> "Err",
          result |-> [error |-> "MissingDependency", what |-> "IdFinder"],
          warned |-> << >>, lookups |-> << >>]
    ELSE
    LET table == Unwrap(finder)
        entry == table[symbol.id]
    IN  CASE entry.kind = "NotFound" ->
                 \* `?` hands the reader's error to the caller
                 [outcome |-> "Err",
                  result |-> [error |-> "PdbError", what |-> "find"],
                  warned |-> << >>, lookups |-> FinderLookups(1)]
          [] entry.kind = "Unparseable" ->
                 [outcome |-> "Panic",
                  result |-> [msg |-> "failed to parse build info"],
                  warned |-> << >>, lookups |-> FinderLookups(1)]
          [] entry.kind = "BuildInfo" ->
                 [outcome |-> "Panic",
                  result |-> IF AllFound(entry.arguments, table)
                             THEN [msg |-> "argument_ids"]
                             ELSE [msg |-> "failed to parse ID"],
                  warned |-> << >>,
                  lookups |-> FinderLookups(1 + Len(ArgsTried(entry.arguments, table)))]
          [] entry.kind = "Other" ->
                 [outcome |-> "Panic",
                  result |-> [msg |-> "entered unreachable code"],
                  warned |-> << >>, lookups |-> FinderLookups(1)]

---------------------------------------------------------------------------
(* Checksums and modules, lines 200-269 *)

Bytes == 0 .. MaxByte
ChecksumTags == {"Md5", "Sha1", "Sha256"}
\* pdb::FileChecksum
FileChecksums ==
    {[tag |-> "None", data |-> << >>]} \cup
    {[tag |-> t, data |-> d] : t \in ChecksumTags, d \in SeqsUpTo(Bytes, MaxDigestLen)}

\* <[u8]>::to_vec: a fresh vector holding the slice's bytes in order
to_vec(data) == [i \in 1 .. Len(data) |-> data[i]]

\* Faulty variant: the Sha1 arm builds an Md5 value.
Checksum_from_swapped(checksum) ==
    CASE checksum.tag = "None"   -> [tag |-> "None", data |-> << >>]
      [] checksum.tag = "Md5"    -> [tag |-> "Md5", data |-> to_vec(checksum.data)]
      [] checksum.tag = "Sha1"   -> [tag |-> "Md5", data |-> to_vec(checksum.data)]
      [] checksum.tag = "Sha256" -> [tag |-> "Sha256", data |-> to_vec(checksum.data)]

\* impl From<pdb::FileChecksum> for Checksum
Checksum_from(checksum) ==
    CASE checksum.tag = "None"   -> [tag |-> "None", data |-> << >>]
      [] checksum.tag = "Md5"    -> [tag |-> "Md5", data |-> to_vec(checksum.data)]
      [] checksum.tag = "Sha1"   -> [tag |-> "Sha1", data |-> to_vec(checksum.data)]
      [] checksum.tag = "Sha256" -> [tag |-> "Sha256", data |-> to_vec(checksum.data)]

\* pdb::StringRef values tried, and the string tables over them:
\* to_string_lossy returns Err (None here) or the raw text at the offset
StringRefs == {0, U32Max}
StringTables == [StringRefs -> {None} \cup {Some(n) : n \in RawNames}]

\* pdb::FileInfo entries a line program yields
FileEntries ==
    {[name |-> 0, checksum |-> [tag |-> "None", data |-> << >>]],
     [name |-> U32Max, checksum |-> [tag |-> "Sha1", data |-> <<0, MaxByte>>]]}

\* Option<&pdb::ModuleInfo>.  program_ok: line_program() returned Ok;
\* files: the entries prog.files() yields; files_err: the iterator then
\* reports an error instead of ending.
ModuleInfos ==
    {None, Some([program_ok |-> FALSE, files |-> << >>, files_err |-> FALSE])} \cup
    {Some([program_ok |-> TRUE, files |-> f, files_err |-> e]) :
        f \in SeqsUpTo(FileEntries, MaxFiles), e \in BOOLEAN}

\* pdb::Module
Modules ==
    {[module_name |-> <<"f">>, object_file_name |-> <<"g", "xFF">>],
     [module_name |-> <<"g", "xFF">>, object_file_name |-> <<"f">>]}

\* Module::module_name() and Module::object_file_name(): the text as Cow<str>
module_name(module) == to_string(module.module_name)
object_file_name(module) == to_string(module.object_file_name)

\* the closure of prog.files().map(..), lines 245-256, on an entry whose name resolves
FileInfo_of(f, table) ==
    [name |-> to_string(Unwrap(table[f.name])), checksum |-> Checksum_from(f.checksum)]

\* index of the first entry whose name the string table rejects, 0 if none
FirstUnresolved(files, table) ==
    LET bad == {i \in 1 .. Len(files) : ~IsSome(table[files[i].name])}
    IN  IF bad = {} THEN 0 ELSE CHOOSE i \in bad : \A j \in bad : i <= j

TableLookups(n) == [i \in 1 .. n |-> "StringTable"]

\* Faulty variant: a line program that cannot be read yields an empty list, not None.
SourceFiles_defaulted(info, table) ==
    IF ~IsSome(info) THEN [panic |-> FALSE, value |-> None, lookups |-> << >>]
    ELSE
    LET i == Unwrap(info)
        bad == FirstUnresolved(i.files, table)
    IN  IF ~i.program_ok THEN [panic |-> FALSE, value |-> Some(<< >>), lookups |-> << >>]
        ELSE IF bad # 0
        THEN [panic |-> TRUE, value |-> None, lookups |-> TableLookups(bad)]
        ELSE IF i.files_err
        THEN [panic |-> FALSE, value |-> None, lookups |-> TableLookups(Len(i.files))]
        ELSE [panic |-> FALSE,
              value |-> Some([k \in 1 .. Len(i.files) |-> FileInfo_of(i.files[k], table)]),
              lookups |-> TableLookups(Len(i.files))]

\* lines 241-261: [panic, value, lookups]; value is the Option<Vec<FileInfo>>
SourceFiles(info, table) ==
    IF ~IsSome(info) THEN [panic |-> FALSE, value |-> None, lookups |-> << >>]
    ELSE
    LET i == Unwrap(info)
        bad == FirstUnresolved(i.files, table)
    IN  IF ~i.program_ok THEN [panic |-> FALSE, value |-> None, lookups |-> << >>]
        ELSE IF bad # 0
        THEN [panic |-> TRUE, value |-> None, lookups |-> TableLookups(bad)]
        ELSE IF i.files_err
        THEN [panic |-> FALSE, value |-> None, lookups |-> TableLookups(Len(i.files))]
        ELSE [panic |-> FALSE,
              value |-> Some([k \in 1 .. Len(i.files) |-> FileInfo_of(i.files[k], table)]),
              lookups |-> TableLookups(Len(i.files))]

\* impl From<(&pdb::Module, Option<&pdb::ModuleInfo>, &pdb::StringTable)> for DebugModule
DebugModule_from(module, info, table) ==
    LET src == SourceFiles(info, table)
    IN  [outcome |-> IF src.panic THEN "Panic" ELSE "Ok",
         result  |-> IF src.panic THEN [msg |-> "failed to convert string"]
                     ELSE [name |-> module_name(module),
                           object_file_name |-> object_file_name(module),
                           source_files |-> src.value],
         warned  |-> << >>,
         lookups |-> src.lookups]

---------------------------------------------------------------------------
(* Compile flags, lines 105-165 *)

\* pdb::CompileFlags
RawCompileFlags ==
    [edit_and_continue : BOOLEAN, no_debug_info : BOOLEAN, link_time_codegen : BOOLEAN,
     no_data_align : BOOLEAN, managed : BOOLEAN, security_checks : BOOLEAN,
     hot_patch : BOOLEAN, cvtcil : BOOLEAN, msil_module : BOOLEAN, sdl : BOOLEAN,
     pgo : BOOLEAN, exp_module : BOOLEAN]

\* Faulty variant: sdl and pgo are filled from each other.
CompileFlags_from_swapped(flags) ==
    [edit_and_continue |-> flags.edit_and_continue,
     no_debug_info     |-> flags.no_debug_info,
     link_time_codegen |-> flags.link_time_codegen,
     no_data_align     |-> flags.no_data_align,
     managed           |-> flags.managed,
     security_checks   |-> flags.security_checks,
     hot_patch         |-> flags.hot_patch,
     cvtcil            |-> flags.cvtcil,
     msil_module       |-> flags.msil_module,
     sdl               |-> flags.pgo,
     pgo               |-> flags.sdl,
     exp_module        |-> flags.exp_module]

\* impl From<pdb::CompileFlags> for CompileFlags
CompileFlags_from(flags) ==
    [edit_and_continue |-> flags.edit_and_continue,
     no_debug_info     |-> flags.no_debug_info,
     link_time_codegen |-> flags.link_time_codegen,
     no_data_align     |-> flags.no_data_align,
     managed           |-> flags.managed,
     security_checks   |-> flags.security_checks,
     hot_patch         |-> flags.hot_patch,
     cvtcil            |-> flags.cvtcil,
     msil_module       |-> flags.msil_module,
     sdl               |-> flags.sdl,
     pgo               |-> flags.pgo,
     exp_module        |-> flags.exp_module]

---------------------------------------------------------------------------
(* The extraction pass: one action per converter call *)

\* a call that returned r
Returned(name, record, r) ==
    /\ op' = name
    /\ input' = record
    /\ outcome' = r.outcome
    /\ result' = r.result
    /\ warned' = r.warned
    /\ lookups' = r.lookups

\* a panic unwinds the process: no converter is called afterwards
Running == outcome # "Panic"

ConvertPublicSymbol ==
    /\ Running
    /\ \E sym \in PublicSymbols :
          Returned("PublicSymbol", sym,
                   PublicSymbol_from(sym, base_address, address_map,
                                     usize_bits, overflow_checks))
    /\ UNCHANGED ctx

\* Faulty variant: the converter keeps the address it resolved as the base of the
\* next call.
ConvertProcedure_rebasing ==
    /\ Running
    /\ \E sym \in ProcedureSymbols :
          LET r == Procedure_from(sym, base_address, address_map, type_finder,
                                  usize_bits, overflow_checks)
          IN  /\ Returned("Procedure", sym, r)
              /\ base_address' = IF r.outcome = "Ok" /\ IsSome(r.result.offset)
                                 THEN Unwrap(r.result.offset)
                                 ELSE base_address
    /\ UNCHANGED <<usize_bits, overflow_checks, address_map, type_finder,
                   id_finder, string_table>>

ConvertProcedure ==
    /\ Running
    /\ \E sym \in ProcedureSymbols :
          Returned("Procedure", sym,
                   Procedure_from(sym, base_address, address_map, type_finder,
                                  usize_bits, overflow_checks))
    /\ UNCHANGED ctx

ConvertBuildInfo ==
    /\ Running
    /\ \E symbol \in BuildInfoSymbols :
          Returned("BuildInfo", symbol, BuildInfo_try_from(symbol, id_finder))
    /\ UNCHANGED ctx

ConvertModule ==
    /\ Running
    /\ \E module \in Modules, info \in ModuleInfos :
          Returned("DebugModule", [module |-> module, info |-> info],
                   DebugModule_from(module, info, string_table))
    /\ UNCHANGED ctx

\* the two context-free conversions are applied to the value held in `input`
ConvertChecksum ==
    /\ outcome = "none"
    /\ input \in FileChecksums
    /\ Returned("Checksum", input,
                [outcome |-> "Ok", result |-> Checksum_from(input),
                 warned |-> << >>, lookups |-> << >>])
    /\ UNCHANGED ctx

ConvertCompileFlags ==
    /\ outcome = "none"
    /\ input \in RawCompileFlags
    /\ Returned("CompileFlags", input,
                [outcome |-> "Ok", result |-> CompileFlags_from(input),
                 warned |-> << >>, lookups |-> << >>])
    /\ UNCHANGED ctx

\* no converter has been called yet
NoCall ==
    /\ op = "none"
    /\ input = << >>
    /\ outcome = "none"
    /\ result = << >>
    /\ warned = << >>
    /\ lookups = << >>

TargetWidths == {U32Bits, 2 * U32Bits}
EmptyAddressMap == [k \in SectionOffsets |-> None]
NoTypes == [t \in TypeIndexes |-> "NotFound"]
EmptyStringTable == [r \in StringRefs |-> None]

\* a pass over symbol records: every build profile, base, address map and type finder
InitSym ==
    /\ usize_bits \in TargetWidths
    /\ overflow_checks \in BOOLEAN
    /\ base_address \in BaseSamples(usize_bits)
    /\ address_map \in AddressMaps
    /\ type_finder \in TypeFinders
    /\ id_finder = None
    /\ string_table = EmptyStringTable
    /\ NoCall

\* the parts of the context no converter of the pass reads
Unread ==
    /\ usize_bits = 2 * U32Bits
    /\ overflow_checks = FALSE
    /\ base_address = 0
    /\ address_map = EmptyAddressMap
    /\ type_finder = NoTypes

\* a pass over build-info records: no id finder, or any id table
InitBuild ==
    /\ Unread
    /\ id_finder \in IdFinders
    /\ string_table = EmptyStringTable
    /\ NoCall

\* a pass over modules: any string table
InitModule ==
    /\ Unread
    /\ id_finder = None
    /\ string_table \in StringTables
    /\ NoCall

\* a value held for a conversion that needs no context
Holding(values) ==
    /\ Unread
    /\ id_finder = None
    /\ string_table = EmptyStringTable
    /\ op = "none"
    /\ input \in values
    /\ outcome = "none"
    /\ result = << >>
    /\ warned = << >>
    /\ lookups = << >>

InitChecksum == Holding(FileChecksums)
InitFlags == Holding(RawCompileFlags)

\* a whole pass: every converter, over a sample of contexts
PassMaps ==
    {[k \in SectionOffsets |-> IF k.section = 0 THEN None ELSE Some(1)],
     [k \in SectionOffsets |-> Some(U32Max)]}
PassIdTable == [i \in IdIndexes |-> [kind |-> "BuildInfo", arguments |-> <<i>>]]
PassStringTable == [r \in StringRefs |-> IF r = 0 THEN Some(<<"f">>) ELSE Some(<<"g", "xFF">>)]

Init ==
    /\ usize_bits \in TargetWidths
    /\ overflow_checks \in BOOLEAN
    /\ base_address \in {0, UsizeMax(usize_bits)}
    /\ address_map \in PassMaps
    /\ type_finder \in {[t \in TypeIndexes |-> o] : o \in TypeOutcomes}
    /\ id_finder \in {None, Some(PassIdTable)}
    /\ string_table \in {EmptyStringTable, PassStringTable}
    /\ NoCall

Next ==
    \/ ConvertPublicSymbol
    \/ ConvertProcedure
    \/ ConvertBuildInfo
    \/ ConvertModule

NextSym == ConvertPublicSymbol \/ ConvertProcedure
NextBuild == ConvertBuildInfo
NextModule == ConvertModule
NextChecksum == ConvertChecksum
NextFlags == ConvertCompileFlags

Spec == Init /\ [][Next]_vars
SpecSym == InitSym /\ [][NextSym]_vars
SpecBuild == InitBuild /\ [][NextBuild]_vars
SpecModule == InitModule /\ [][NextModule]_vars
SpecChecksum == InitChecksum /\ [][NextChecksum]_vars
SpecFlags == InitFlags /\ [][NextFlags]_vars

---------------------------------------------------------------------------
(* Claims *)

SymbolCall == op \in {"PublicSymbol", "Procedure"}
\* what the address map reports for the record converted last
MappedRva == to_rva(input.offset, address_map)

\* C1: a public symbol or procedure whose (section, offset) the address map
\* translates to R converts, for every base address B, to a record whose
\* offset is Some(B + R), the exact sum: the addition neither wraps nor
\* aborts.  (A procedure call that ends in the type-info panic is left
\* aside: it says nothing about the addition.)
C1_ExactSum ==
    (SymbolCall /\ IsSome(MappedRva)) =>
        /\ outcome = "Panic" => result.msg # OverflowMsg
        /\ outcome = "Ok" => result.offset = Some(base_address + Unwrap(MappedRva))

\* C2: a public symbol or procedure with section index 0 converts to a
\* record whose offset is None whatever the address map contains, the map
\* is not consulted, and exactly one warning, naming the record, is emitted.
C2_SectionZeroUnresolved ==
    (SymbolCall /\ input.offset.section = 0) =>
        /\ outcome = "Ok"
        /\ result.offset = None
        /\ warned = <<input>>
        /\ \A i \in 1 .. Len(lookups) : lookups[i] # "AddressMap"

\* C3: build-info conversion without an id finder returns
\* Err(MissingDependency("IdFinder")), consults no table and does not panic.
C3_MissingFinder ==
    (op = "BuildInfo" /\ id_finder = None) =>
        /\ outcome = "Err"
        /\ result = [error |-> "MissingDependency", what |-> "IdFinder"]
        /\ lookups = << >>

C3_Witness ==
    /\ op = "BuildInfo"
    /\ id_finder = None
    /\ outcome = "Err"
    /\ result.error = "MissingDependency"

\* the id entry of the build-info symbol converted last
SymbolEntry == Unwrap(id_finder)[input.id]

\* C4: with an id finder, a symbol whose id entry is a build-info record with
\* N argument ids that all resolve converts to Ok(BuildInfo) with exactly N
\* arguments, the i-th being the resolution of the i-th id; no panic.
C4_ReturnsArguments ==
    (/\ op = "BuildInfo"
     /\ IsSome(id_finder)
     /\ SymbolEntry.kind = "BuildInfo"
     /\ AllFound(SymbolEntry.arguments, Unwrap(id_finder))) =>
        /\ outcome = "Ok"
        /\ Len(result.arguments) = Len(SymbolEntry.arguments)
        /\ \A i \in 1 .. Len(SymbolEntry.arguments) :
              result.arguments[i] = [resolved_id |-> SymbolEntry.arguments[i]]

\* the module info of the module converted last
InfoOf == Unwrap(input.info)
NamesResolve(files) == \A i \in 1 .. Len(files) : IsSome(string_table[files[i].name])

\* C5: module conversion yields source_files = None without a module info
\* block and with a block whose line program cannot be obtained; with a line
\* program that yields M entries whose names all resolve it yields Some of
\* exactly M FileInfo, the i-th built from the i-th entry; the module name
\* and the object-file name are copied in all three cases.
C5_SourceFiles ==
    op = "DebugModule" =>
        LET copied == /\ outcome = "Ok"
                      /\ result.name = to_string(input.module.module_name)
                      /\ result.object_file_name = to_string(input.module.object_file_name)
        IN  /\ ~IsSome(input.info) => (copied /\ result.source_files = None)
            /\ (IsSome(input.info) /\ ~InfoOf.program_ok) =>
                   (copied /\ result.source_files = None)
            /\ (/\ IsSome(input.info)
                /\ InfoOf.program_ok
                /\ ~InfoOf.files_err
                /\ NamesResolve(InfoOf.files)) =>
                   /\ copied
                   /\ IsSome(result.source_files)
                   /\ Len(Unwrap(result.source_files)) = Len(InfoOf.files)
                   /\ \A i \in 1 .. Len(InfoOf.files) :
                         LET out == Unwrap(result.source_files)[i]
                             src == InfoOf.files[i]
                         IN  /\ out.name = to_string(Unwrap(string_table[src.name]))
                             /\ out.checksum.tag = src.checksum.tag
                             /\ out.checksum.data = src.checksum.data

C5_Witness ==
    /\ op = "DebugModule"
    /\ outcome = "Ok"
    /\ IsSome(input.info)
    /\ IsSome(result.source_files)
    /\ Len(Unwrap(result.source_files)) = 2
    /\ Unwrap(result.source_files)[1].name # Unwrap(result.source_files)[2].name

\* C6: when the string table cannot resolve the name of a file entry of the
\* module's line program, module conversion hands a typed failure to its
\* caller: it does not panic and does not return a module.
C6_StringFailureIsTyped ==
    (/\ op = "DebugModule"
     /\ IsSome(input.info)
     /\ InfoOf.program_ok
     /\ ~NamesResolve(InfoOf.files)) =>
        outcome = "Err"

\* the usize addition of the call converted last overflows
AddOverflows ==
    /\ IsSome(MappedRva)
    /\ base_address + Unwrap(MappedRva) > UsizeMax(usize_bits)

\* C7: procedure conversion always returns a Procedure; when the type index
\* is not found or the record found does not parse, signature is None, the
\* name, len, flags and debug offsets are still copied and the address is
\* still resolved.  (Calls whose address addition overflows are left aside:
\* they belong to C1.)
C7_ProcedureTotal ==
    (op = "Procedure" /\ ~AddOverflows) =>
        /\ outcome = "Ok"
        /\ type_finder[input.type_index] # "Parsed" => result.signature = None
        /\ result.name = to_string(input.name)
        /\ result.len = input.len
        /\ result.is_global = input.global
        /\ result.is_dpc = input.dpc
        /\ result.prologue_end = input.dbg_start_offset
        /\ result.epilogue_start = input.dbg_end_offset
        /\ result.offset = IF IsSome(MappedRva)
                            THEN Some(base_address + Unwrap(MappedRva))
                            ELSE None

\* C8: checksum conversion maps every source variant to the variant with the
\* same tag and the same bytes in the same order, and no other source value
\* converts to the value it returned.
C8_ChecksumPreserved ==
    op = "Checksum" =>
        /\ outcome = "Ok"
        /\ result.tag = input.tag
        /\ Len(result.data) = Len(input.data)
        /\ \A i \in 1 .. Len(input.data) : result.data[i] = input.data[i]
        /\ \A other \in FileChecksums : Checksum_from(other) = result => other = input

C8_Witness ==
    /\ op = "Checksum"
    /\ input.tag = "Sha1"
    /\ Len(input.data) >= 2
    /\ input.data[1] # input.data[2]
    /\ result.tag = "Sha1"

\* C9: compile-flags conversion copies each of the twelve source flags to
\* the output field of the same name, for every combination of the flags.
C9_FlagsPreserved ==
    op = "CompileFlags" =>
        /\ outcome = "Ok"
        /\ result \in RawCompileFlags
        /\ result.edit_and_continue = input.edit_and_continue
        /\ result.no_debug_info = input.no_debug_info
        /\ result.link_time_codegen = input.link_time_codegen
        /\ result.no_data_align = input.no_data_align
        /\ result.managed = input.managed
        /\ result.security_checks = input.security_checks
        /\ result.hot_patch = input.hot_patch
        /\ result.cvtcil = input.cvtcil
        /\ result.msil_module = input.msil_module
        /\ result.sdl = input.sdl
        /\ result.pgo = input.pgo
        /\ result.exp_module = input.exp_module

C9_Witness ==
    /\ op = "CompileFlags"
    /\ input.sdl
    /\ ~input.pgo
    /\ result.sdl
    /\ ~result.pgo

\* the outcome and value of converting `record` alone, in the given context
ConvertedAlone(name, record, bits, checks, base, map, types, ids, strings) ==
    LET r == CASE name = "PublicSymbol" ->
                      PublicSymbol_from(record, base, map, bits, checks)
               [] name = "Procedure" ->
                      Procedure_from(record, base, map, types, bits, checks)
               [] name = "BuildInfo" -> BuildInfo_try_from(record, ids)
               [] name = "DebugModule" ->
                      DebugModule_from(record.module, record.info, strings)
    IN  <<r.outcome, r.result>>

====
